---- MODULE Spec2Model ----
(***************************************************************************)
(* A model of the belief-action tree node (solver/ActionNode.cpp) and of   *)
(* the simulation-driving search engine (solver/search/                    *)
(* search_interface.cpp) of the TAPIR POMDP solver.                        *)
(*                                                                         *)
(* SpecNode   : one ActionNode under a sequential series of calls of       *)
(*              updateQValue (both overloads), getChild, createOrGetChild. *)
(* SpecSearch : BasicSearchStrategy::extendSequence driving a              *)
(*              StagedStepGenerator over the stages of factories_; the      *)
(*              stages, the model, the heuristic and the solver's update    *)
(*              entry points are the environment.                           *)
(* SpecRace   : one ActionNode under createOrGetChild calls of callers     *)
(*              that run without a lock, a call's lookup and its creation   *)
(*              being two steps.                                            *)
(***************************************************************************)
EXTENDS Integers, Sequences, FiniteSets, TLC

VARIABLES
    \* ---- ActionNode (ActionNode.cpp) ----
    nParticles_,     \* long nParticles_
    totalQValue_,    \* double totalQValue_   (integer-valued inputs only)
    meanQValue_,     \* double meanQValue_    (an exact fraction <<num, den>>)
    obsMap_,         \* the ObservationMapping: a sequence of [obs, child] entries
    nodeCalls,       \* number of calls made on the node so far
    lastCall,        \* the last call made on the node and what it returned
    \* ---- the caller's data: HistorySequence and BeliefTree ----
    seq,             \* HistorySequence: entries [state, action, observation, reward, tp, node]
    depthOf,         \* BeliefTree: depthOf[n] is BeliefNode n's depth (nodes are 1..Len)
    edges,           \* BeliefTree: [parent, action, observation, child] links
    \* ---- BasicSearchStrategy::extendSequence (search_interface.cpp:70-157) ----
    pc,              \* position: "idle" (not called yet), "loop" (l.93), "getStep" (l.48/57),
                     \*           "step" (l.102), "post" (l.138), "done" (returned)
    maximumDepth,    \* long maximumDepth
    currentEntry,    \* HistoryEntry *currentEntry, an index into seq
    currentNode,     \* BeliefNode *currentNode
    status,          \* SearchStatus status, shared by reference with the generators
    isFirst,         \* bool isFirst
    result,          \* Model::StepResult result
    ret,             \* the status the call returned ("none" until it returns)
    \* ---- StagedStepGenerator (search_interface.cpp:35-60) ----
    generator_,      \* the active stage's generator: the stage's index, NULL when cleared
    iterator_,       \* cursor into factories_ (Len(factories_) + 1 is cend())
    \* ---- history kept for the properties ----
    atEntry,         \* seq, depthOf and edges as they were when the call began
    stopped,         \* why the call left the loop or returned early ("no" before that)
    log,             \* the calls extendSequence and the staged generator made, in order
    \* ---- unsynchronized callers of ActionNode::createOrGetChild ----
    callers,         \* per caller: position ("out", "looked"), the observation it passed
                     \*             and its local beliefChild (ActionNode.cpp:65)
    overlapped,      \* history: a call began while another caller's call was under way
    raceLog          \* history: the calls that returned, what their lookup saw and
                     \*          the pair they returned

nodeVars == <<nParticles_, totalQValue_, meanQValue_, obsMap_, nodeCalls, lastCall>>

searchVars == <<seq, depthOf, edges, pc, maximumDepth, currentEntry, currentNode, status,
                isFirst, result, ret, generator_, iterator_, atEntry, stopped, log>>

raceVars == <<callers, overlapped, raceLog>>

vars == <<nodeVars, searchVars, raceVars>>

(***************************************************************************)
(* Bounds and input sets                                                   *)
(***************************************************************************)
MaxNodeCalls == 4                   \* calls made on one ActionNode
MaxRaceCalls == 3                   \* createOrGetChild calls made by the unsynchronized callers
Callers == {"t1", "t2"}             \* the unsynchronized callers
Increases == {-1, 1, 2}             \* values of the `increase' argument
DeltaNParticles == {-1, 1, 2}       \* values of the `deltaNParticles' argument
Observations == {"o1", "o2"}        \* distinct observations

NULL == 0                           \* nullptr, for a pointer to a belief node (nodes are 1, 2, ...)

(***************************************************************************)
(* Arithmetic on doubles.  The inputs are integers, so totalQValue_ is an  *)
(* integer and totalQValue_ / nParticles_ is a rational; it is kept as the *)
(* reduced fraction <<num, den>> with den > 0, so that equal quotients     *)
(* have equal representations and 0 is <<0, 1>>.                           *)
(***************************************************************************)
Abs(x) == IF x < 0 THEN -x ELSE x

RECURSIVE GCD(_, _)
GCD(a, b) == IF b = 0 THEN a ELSE GCD(b, a % b)

Zero == <<0, 1>>

\* totalQValue_ / nParticles_ for n > 0
Quot(t, n) == LET g == GCD(Abs(t), n) IN <<t \div g, n \div g>>

(***************************************************************************)
(* ActionNode::ActionNode                                                  *)
(***************************************************************************)
InitNode ==
    /\ nParticles_ = 0
    /\ totalQValue_ = 0
    /\ meanQValue_ = Zero
    /\ obsMap_ = <<>>
    /\ nodeCalls = 0
    /\ lastCall = [op |-> "none"]

(***************************************************************************)
(* ActionNode::updateQValue(double increase): the new total and mean, as a *)
(* function of the particle count n the node holds when it is called.      *)
(***************************************************************************)
NewTotal(increase) == totalQValue_ + increase

NewMean(increase, n) ==
    IF n > 0 THEN Quot(NewTotal(increase), n) ELSE Zero

UpdateQValue(increase) ==
    /\ nodeCalls < MaxNodeCalls
    /\ totalQValue_' = NewTotal(increase)
    /\ meanQValue_' = NewMean(increase, nParticles_)
    /\ nParticles_' = nParticles_
    /\ nodeCalls' = nodeCalls + 1
    /\ lastCall' = [op |-> "updateQValue", increase |-> increase]
    /\ UNCHANGED <<obsMap_, searchVars, raceVars>>

(***************************************************************************)
(* ActionNode::updateQValue(double increase, long deltaNParticles)         *)
(***************************************************************************)
\* A slip: the mean is taken from the particle count before the adjustment.
UpdateQValue2Stale(increase, deltaNParticles) ==
    /\ nodeCalls < MaxNodeCalls
    /\ nParticles_' = nParticles_ + deltaNParticles
    /\ totalQValue_' = NewTotal(increase)
    /\ meanQValue_' = NewMean(increase, nParticles_)
    /\ nodeCalls' = nodeCalls + 1
    /\ lastCall' = [op |-> "updateQValue2", increase |-> increase,
                    deltaNParticles |-> deltaNParticles]
    /\ UNCHANGED <<obsMap_, searchVars, raceVars>>

UpdateQValue2(increase, deltaNParticles) ==
    /\ nodeCalls < MaxNodeCalls
    /\ nParticles_' = nParticles_ + deltaNParticles
    /\ totalQValue_' = NewTotal(increase)
    /\ meanQValue_' = NewMean(increase, nParticles_')
    /\ nodeCalls' = nodeCalls + 1
    /\ lastCall' = [op |-> "updateQValue2", increase |-> increase,
                    deltaNParticles |-> deltaNParticles]
    /\ UNCHANGED <<obsMap_, searchVars, raceVars>>

(***************************************************************************)
(* ObservationMapping (the interface obsMap_ points to).  getBelief is the *)
(* child of the first entry that holds the observation, or nullptr;        *)
(* createBelief adds an entry with a new belief node.                      *)
(***************************************************************************)
GetBelief(map, obs) ==
    IF \E i \in 1..Len(map) : map[i].obs = obs
    THEN map[CHOOSE i \in 1..Len(map) :
                /\ map[i].obs = obs
                /\ \A j \in 1..(i - 1) : map[j].obs # obs].child
    ELSE NULL

NewBelief(map) == Len(map) + 1

CreateBelief(map, obs) == Append(map, [obs |-> obs, child |-> NewBelief(map)])

(***************************************************************************)
(* ActionNode::getChild                                                    *)
(***************************************************************************)
GetChild(obs) ==
    /\ nodeCalls < MaxNodeCalls
    /\ nodeCalls' = nodeCalls + 1
    /\ lastCall' = [op |-> "getChild", obs |-> obs, child |-> GetBelief(obsMap_, obs)]
    /\ UNCHANGED <<nParticles_, totalQValue_, meanQValue_, obsMap_, searchVars, raceVars>>

(***************************************************************************)
(* ActionNode::createOrGetChild                                            *)
(***************************************************************************)
\* A slip: the lookup is skipped and a child is created on every call.
CreateOrGetChildAlways(obs) ==
    /\ nodeCalls < MaxNodeCalls
    /\ obsMap_' = CreateBelief(obsMap_, obs)
    /\ nodeCalls' = nodeCalls + 1
    /\ lastCall' = [op |-> "createOrGetChild", obs |-> obs,
                    child |-> NewBelief(obsMap_), added |-> TRUE]
    /\ UNCHANGED <<nParticles_, totalQValue_, meanQValue_, searchVars, raceVars>>

CreateOrGetChild(obs) ==
    /\ nodeCalls < MaxNodeCalls
    /\ LET beliefChild == GetBelief(obsMap_, obs) IN
        IF beliefChild = NULL
        THEN /\ obsMap_' = CreateBelief(obsMap_, obs)
             /\ lastCall' = [op |-> "createOrGetChild", obs |-> obs,
                             child |-> NewBelief(obsMap_), added |-> TRUE]
        ELSE /\ obsMap_' = obsMap_
             /\ lastCall' = [op |-> "createOrGetChild", obs |-> obs,
                             child |-> beliefChild, added |-> FALSE]
    /\ nodeCalls' = nodeCalls + 1
    /\ UNCHANGED <<nParticles_, totalQValue_, meanQValue_, searchVars, raceVars>>

NextNode ==
    \/ \E increase \in Increases : UpdateQValue(increase)
    \/ \E increase \in Increases, deltaNParticles \in DeltaNParticles :
            UpdateQValue2(increase, deltaNParticles)
    \/ \E obs \in Observations : GetChild(obs)
    \/ \E obs \in Observations : CreateOrGetChild(obs)

(***************************************************************************)
(* The environment of the search: the values the model, the stages and     *)
(* the heuristic hand to extendSequence.                                   *)
(***************************************************************************)
MaxDepthBound == 2                  \* maximumDepth ranges over 0..MaxDepthBound
MaxInitDepth == 1                   \* the frontier belief's depth when the call begins

Actions == {"a1"}
Rewards == {2, 3}
States == {"s0", "sT"}
TerminalStates == {"sT"}            \* the states Model::isTerminal holds of
HeuristicValues == {5, 7}
NullAction == "nullptr"             \* result.action == nullptr
NullObs == "nullptr"
NoState == "nullptr"
NoParams == "nullptr"

SearchStatuses == {"UNINITIALIZED", "INITIAL", "OUT_OF_STEPS", "FINISHED", "ERROR"}

\* the stage factories of the StagedStepGeneratorFactory, in list order
factories_ == <<"A", "B">>

IsTerminal(state) == state \in TerminalStates

\* Model::StepResult: a step, or the result with a null action
StepResults ==
    [action : Actions, reward : Rewards, observation : Observations,
     transitionParameters : {"tp"}, nextState : States, isTerminal : BOOLEAN]

NullResult ==
    [action |-> NullAction, reward |-> 0, observation |-> NullObs,
     transitionParameters |-> NoParams, nextState |-> NoState, isTerminal |-> FALSE]

NewEntry(state, action, node) ==
    [state |-> state, action |-> action,
     observation |-> IF action = NullAction THEN NullObs ELSE "o1",
     reward |-> 0, tp |-> NoParams, node |-> node]

\* the sequence and tree the solver hands over: a frontier belief at depth d
\* which, when `explored', an earlier simulation has given a child already
InitialTree(d, explored) ==
    [n \in 1..(IF explored THEN d + 2 ELSE d + 1) |-> n - 1]

InitialEdges(d, explored) ==
    {[parent |-> n, action |-> "a1", observation |-> "o1", child |-> n + 1] :
        n \in 1..(IF explored THEN d + 1 ELSE d)}

InitialSequence(d, state, action) ==
    [i \in 1..(d + 1) |->
        IF i = d + 1 THEN NewEntry(state, action, i) ELSE NewEntry("s0", "a1", i)]

SearchIdle(d, state, action, explored) ==
    /\ seq = InitialSequence(d, state, action)
    /\ depthOf = InitialTree(d, explored)
    /\ edges = InitialEdges(d, explored)
    /\ pc = "idle"
    /\ maximumDepth = 0
    /\ currentEntry = 0
    /\ currentNode = NULL
    /\ status = "UNINITIALIZED"
    /\ isFirst = TRUE
    /\ result = NullResult
    /\ ret = "none"
    /\ generator_ = NULL
    /\ iterator_ = 1
    /\ atEntry = [seq |-> seq, depthOf |-> depthOf, edges |-> edges]
    /\ stopped = "no"
    /\ log = <<>>

InitSearch ==
    \E d \in 0..MaxInitDepth, state \in States, action \in Actions \cup {NullAction},
       explored \in BOOLEAN : SearchIdle(d, state, action, explored)

(***************************************************************************)
(* The calls extendSequence and the staged generator make, as log entries. *)
(***************************************************************************)
EvCreate(stage) == [op |-> "createGenerator", stage |-> stage]
EvIsTerminal(state) == [op |-> "isTerminal", state |-> state]
EvGetStep(entry, node) == [op |-> "getStep", entry |-> entry, node |-> node]
\* a stage's own getStep; the status it leaves is read only after a null action
EvStage(stage, r, s) ==
    [op |-> "stageGetStep", stage |-> stage, result |-> r,
     status |-> IF r.action = NullAction THEN s ELSE "unread"]
EvResult(r, gen) == [op |-> "result", result |-> r, generator |-> gen]
EvUpdateEstimate(node, deltaTotalQ, deltaNVisits) ==
    [op |-> "updateEstimate", node |-> node, deltaTotalQ |-> deltaTotalQ,
     deltaNVisits |-> deltaNVisits]
EvRecord(entry, r) == [op |-> "record", entry |-> entry, result |-> r]
EvCreateOrGetChild(node, r, child, added) ==
    [op |-> "createOrGetChild", node |-> node, action |-> r.action,
     observation |-> r.observation, child |-> child, added |-> added]
EvUpdateImmediate(node, r, deltaNVisits) ==
    [op |-> "updateImmediate", node |-> node, action |-> r.action,
     observation |-> r.observation, reward |-> r.reward, deltaNVisits |-> deltaNVisits]
EvAddEntry(entry, state, node) ==
    [op |-> "addEntry", entry |-> entry, state |-> state, node |-> node]
EvHeuristic(entry, state, value) ==
    [op |-> "heuristic", entry |-> entry, state |-> state, value |-> value]

(***************************************************************************)
(* BeliefTree::createOrGetChild(node, action, observation): the child of   *)
(* the node for the pair, created one level deeper when there is none.     *)
(***************************************************************************)
TreeHasChild(node, action, obs) ==
    \E e \in edges : e.parent = node /\ e.action = action /\ e.observation = obs

TreeChild(node, action, obs) ==
    IF TreeHasChild(node, action, obs)
    THEN (CHOOSE e \in edges :
            e.parent = node /\ e.action = action /\ e.observation = obs).child
    ELSE Len(depthOf) + 1

(***************************************************************************)
(* BasicSearchStrategy::extendSequence, lines 70-90: the generator is      *)
(* built (StagedStepGenerator's constructor, lines 35-44, instantiates the *)
(* first stage, which leaves `constructed' in the shared status) and the   *)
(* preconditions are checked.                                              *)
(***************************************************************************)
\* A slip: the terminal frontier is not checked for.
FrontierIsTerminalSkipped(entry) == FALSE

FrontierIsTerminal(entry) == IsTerminal(entry.state)

\* A slip: the frontier's action is not checked for.
FrontierHasActionSkipped(entry) == FALSE

FrontierHasAction(entry) == entry.action # NullAction

\* A slip: the status the construction left is not looked at.
ConstructionFailedIgnored(s) == FALSE

\* line 77: status == SearchStatus::UNINITIALIZED
ConstructionFailed(s) == s = "UNINITIALIZED"

ExtendSequenceBegin(maxDepth, constructed) ==
    /\ pc = "idle"
    /\ atEntry' = [seq |-> seq, depthOf |-> depthOf, edges |-> edges]
    /\ maximumDepth' = maxDepth
    /\ currentEntry' = Len(seq)
    /\ currentNode' = seq[Len(seq)].node
    /\ generator_' = 1
    /\ iterator_' = 2
    /\ status' = constructed
    /\ isFirst' = TRUE
    /\ result' = NullResult
    /\ IF ConstructionFailed(constructed)
       THEN /\ ret' = "UNINITIALIZED"
            /\ pc' = "done"
            /\ stopped' = "uninitialized"
            /\ log' = <<EvCreate(1)>>
       ELSE IF FrontierIsTerminal(seq[Len(seq)])
       THEN /\ ret' = "ERROR"
            /\ pc' = "done"
            /\ stopped' = "terminal frontier"
            /\ log' = <<EvCreate(1), EvIsTerminal(seq[Len(seq)].state)>>
       ELSE IF FrontierHasAction(seq[Len(seq)])
       THEN /\ ret' = "ERROR"
            /\ pc' = "done"
            /\ stopped' = "frontier action"
            /\ log' = <<EvCreate(1), EvIsTerminal(seq[Len(seq)].state)>>
       ELSE /\ ret' = "none"
            /\ pc' = "loop"
            /\ stopped' = "no"
            /\ log' = <<EvCreate(1), EvIsTerminal(seq[Len(seq)].state)>>
    /\ UNCHANGED <<seq, depthOf, edges, nodeVars, raceVars>>

(***************************************************************************)
(* extendSequence, lines 93-100: the head of the loop.                     *)
(***************************************************************************)
\* A slip: the depth is never looked at.
DepthCutoffNever(node, maxDepth) == FALSE

\* A slip: the cutoff comes one level late.
DepthCutoffLate(node, maxDepth) == depthOf[node] > maxDepth

DepthCutoff(node, maxDepth) == depthOf[node] >= maxDepth

LoopHead ==
    /\ pc = "loop"
    /\ IF DepthCutoff(currentNode, maximumDepth)
       THEN /\ status' = "OUT_OF_STEPS"
            /\ pc' = "post"
            /\ stopped' = "cutoff"
            /\ log' = log
       ELSE /\ status' = status
            /\ pc' = "getStep"
            /\ stopped' = stopped
            /\ log' = Append(log, EvGetStep(currentEntry, currentNode))
    /\ UNCHANGED <<seq, depthOf, edges, maximumDepth, currentEntry, currentNode, isFirst,
                   result, ret, generator_, iterator_, atEntry, nodeVars, raceVars>>

(***************************************************************************)
(* StagedStepGenerator::getStep, lines 46-60.  The active stage returns r  *)
(* and leaves `left' in the shared status (lines 48, 57); on a null action *)
(* the staged generator stops or instantiates the next stage, whose        *)
(* constructor leaves `constructed' in the status (lines 55-56).           *)
(***************************************************************************)
\* A slip: the end of the stage list is not looked at.
StageMustStopOnlyFinished(s, it) == s = "FINISHED"

\* A slip: the shared status is not looked at.
StageMustStopAtEnd(s, it) == it = Len(factories_) + 1

StageMustStop(s, it) == s = "FINISHED" \/ it = Len(factories_) + 1

\* A slip: the staged generator keeps its active stage when it stops.
ClearedKept(g) == g

\* line 51: generator_ = nullptr
Cleared(g) == NULL

StageGetStep(r, left) ==
    /\ pc = "getStep"
    /\ generator_ # NULL
    /\ IF r.action # NullAction
       THEN /\ status' = left
            /\ result' = r
            /\ pc' = "step"
            /\ log' = log \o <<EvStage(generator_, r, left), EvResult(r, generator_)>>
            /\ UNCHANGED <<generator_, iterator_>>
       ELSE IF StageMustStop(left, iterator_)
       THEN /\ status' = left
            /\ generator_' = Cleared(generator_)
            /\ result' = r
            /\ pc' = "step"
            /\ log' = log \o <<EvStage(generator_, r, left), EvResult(r, Cleared(generator_))>>
            /\ UNCHANGED iterator_
       ELSE /\ \E constructed \in SearchStatuses : status' = constructed
            /\ generator_' = iterator_
            /\ iterator_' = iterator_ + 1
            /\ pc' = "getStep"
            /\ log' = log \o <<EvStage(generator_, r, left), EvCreate(iterator_)>>
            /\ UNCHANGED result
    /\ UNCHANGED <<seq, depthOf, edges, maximumDepth, currentEntry, currentNode, isFirst,
                   ret, atEntry, stopped, nodeVars, raceVars>>

(***************************************************************************)
(* extendSequence, lines 102-136: the rest of the loop body.               *)
(***************************************************************************)
\* A slip: the loop goes on after a null action.
NullIgnored(r) == FALSE

NullStops(r) == r.action = NullAction

\* A slip: the first step is charged a continuation too.
ContinuationAlways(node, first) == <<EvUpdateEstimate(node, 0, 1)>>

Continuation(node, first) ==
    IF first THEN <<>> ELSE <<EvUpdateEstimate(node, 0, 1)>>

\* A slip: the child belief is updated instead of the one the step left.
ImmediateUpdateOfChild(node, child, r) == EvUpdateImmediate(child, r, 1)

ImmediateUpdate(node, child, r) == EvUpdateImmediate(node, r, 1)

\* A slip: the step's terminal mark is not looked at.
TerminalIgnored(r) == FALSE

TerminalStops(r) == r.isTerminal

\* A slip: the step's action is not stored in the entry.
RecordedWithoutAction(entry, r) ==
    [entry EXCEPT !.reward = r.reward,
                  !.tp = r.transitionParameters,
                  !.observation = r.observation]

\* lines 113-116: the step is recorded in the current entry
Recorded(entry, r) ==
    [entry EXCEPT !.reward = r.reward,
                  !.action = r.action,
                  !.tp = r.transitionParameters,
                  !.observation = r.observation]

\* A slip: the immediate update is made after the new entry is appended.
StepCallsUpdateLast(recorded, child, update, entry) == <<recorded, child, entry, update>>

\* lines 113-130: the order of the calls of one step
StepCalls(recorded, child, update, entry) == <<recorded, child, update, entry>>

HandleStep ==
    /\ pc = "step"
    /\ IF NullStops(result)
       THEN /\ pc' = "post"
            /\ stopped' = "null action"
            /\ UNCHANGED <<seq, depthOf, edges, currentEntry, currentNode, status, isFirst,
                           ret, log>>
       ELSE LET nextNode == TreeChild(currentNode, result.action, result.observation)
                added == ~TreeHasChild(currentNode, result.action, result.observation)
            IN
            /\ isFirst' = FALSE
            /\ seq' = Append([seq EXCEPT ![currentEntry] = Recorded(@, result)],
                             NewEntry(result.nextState, NullAction, nextNode))
            /\ IF added
               THEN /\ depthOf' = Append(depthOf, depthOf[currentNode] + 1)
                    /\ edges' = edges \cup {[parent |-> currentNode, action |-> result.action,
                                             observation |-> result.observation,
                                             child |-> nextNode]}
               ELSE UNCHANGED <<depthOf, edges>>
            /\ log' = log \o Continuation(currentNode, isFirst)
                          \o StepCalls(EvRecord(currentEntry, result),
                                       EvCreateOrGetChild(currentNode, result, nextNode, added),
                                       ImmediateUpdate(currentNode, nextNode, result),
                                       EvAddEntry(Len(seq) + 1, result.nextState, nextNode))
            /\ currentNode' = nextNode
            /\ currentEntry' = Len(seq) + 1
            /\ IF TerminalStops(result)
               THEN /\ status' = "FINISHED"
                    /\ ret' = "FINISHED"
                    /\ pc' = "done"
                    /\ stopped' = "terminal step"
               ELSE /\ pc' = "loop"
                    /\ UNCHANGED <<status, ret, stopped>>
    /\ UNCHANGED <<maximumDepth, result, generator_, iterator_, atEntry, nodeVars, raceVars>>

(***************************************************************************)
(* extendSequence, lines 138-157: after the loop.                          *)
(***************************************************************************)
\* A slip: the heuristic is used for every status but FINISHED.
NeedsHeuristicUnlessFinished(s) == s # "FINISHED"

NeedsHeuristic(s) == s = "OUT_OF_STEPS"

\* A slip: the heuristic's update counts a visit.
HeuristicUpdateAsVisit(node, value) == EvUpdateEstimate(node, value, 1)

HeuristicUpdate(node, value) == EvUpdateEstimate(node, value, 0)

PostLoop(value) ==
    /\ pc = "post"
    /\ pc' = "done"
    /\ IF NeedsHeuristic(status)
       THEN /\ seq' = [seq EXCEPT ![currentEntry] = [@ EXCEPT !.reward = value]]
            /\ log' = log \o <<EvHeuristic(currentEntry, seq[currentEntry].state, value),
                               HeuristicUpdate(currentNode, value)>>
            /\ status' = "FINISHED"
            /\ ret' = "FINISHED"
       ELSE /\ ret' = status
            /\ UNCHANGED <<seq, log, status>>
    /\ UNCHANGED <<depthOf, edges, maximumDepth, currentEntry, currentNode, isFirst, result,
                   generator_, iterator_, atEntry, stopped, nodeVars, raceVars>>

NextSearch ==
    \/ \E maxDepth \in 0..MaxDepthBound, constructed \in SearchStatuses :
            ExtendSequenceBegin(maxDepth, constructed)
    \/ LoopHead
    \/ \E r \in StepResults \cup {NullResult}, left \in SearchStatuses : StageGetStep(r, left)
    \/ HandleStep
    \/ \E value \in HeuristicValues : PostLoop(value)

\* no caller of createOrGetChild is inside a call
InitRace ==
    /\ callers = [c \in Callers |-> [pc |-> "out", obs |-> NullObs, beliefChild |-> NULL]]
    /\ overlapped = FALSE
    /\ raceLog = <<>>

\* a fresh node, and no search under way
InitOfNode == InitNode /\ SearchIdle(0, "s0", NullAction, FALSE) /\ InitRace

\* a sequence to extend, and a node nobody calls
InitOfSearch == InitNode /\ InitSearch /\ InitRace

SpecNode == InitOfNode /\ [][NextNode]_vars

SpecSearch == InitOfSearch /\ [][NextSearch]_vars

(***************************************************************************)
(* ActionNode::createOrGetChild, lines 64-72, called by callers that hold  *)
(* no lock.  The call is two calls on the mapping: the lookup of line 65   *)
(* (getChild, i.e. obsMap_->getBelief) and, when that found nothing, the   *)
(* creation of line 68 (obsMap_->createBelief); each of the two is one     *)
(* step, and the other callers' steps may come between them.               *)
(***************************************************************************)
UnderWay == {c \in Callers : callers[c].pc = "looked"}

\* line 65: BeliefNode *beliefChild = getChild(obs);
RaceLookup(c, obs) ==
    /\ callers[c].pc = "out"
    /\ Len(raceLog) + Cardinality(UnderWay) < MaxRaceCalls
    /\ callers' = [callers EXCEPT ![c] = [pc |-> "looked", obs |-> obs,
                                          beliefChild |-> GetBelief(obsMap_, obs)]]
    /\ overlapped' = (overlapped \/ UnderWay # {})
    /\ UNCHANGED <<raceLog, nodeVars, searchVars>>

\* A slip: a child is created whatever the lookup found.
MustCreateAlways(beliefChild) == TRUE

\* line 67: if (beliefChild == nullptr)
MustCreate(beliefChild) == beliefChild = NULL

\* lines 66-71: create the child if the lookup found none; return the pair
RaceReturn(c) ==
    /\ callers[c].pc = "looked"
    /\ LET obs == callers[c].obs
           beliefChild == callers[c].beliefChild IN
       IF MustCreate(beliefChild)
       THEN /\ obsMap_' = CreateBelief(obsMap_, obs)
            /\ raceLog' = Append(raceLog, [caller |-> c, obs |-> obs, saw |-> beliefChild,
                                           child |-> NewBelief(obsMap_), added |-> TRUE])
       ELSE /\ obsMap_' = obsMap_
            /\ raceLog' = Append(raceLog, [caller |-> c, obs |-> obs, saw |-> beliefChild,
                                           child |-> beliefChild, added |-> FALSE])
    /\ callers' = [callers EXCEPT ![c] = [pc |-> "out", obs |-> NullObs, beliefChild |-> NULL]]
    /\ UNCHANGED <<overlapped, nParticles_, totalQValue_, meanQValue_, nodeCalls, lastCall,
                   searchVars>>

NextRace ==
    \/ \E c \in Callers, obs \in Observations : RaceLookup(c, obs)
    \/ \E c \in Callers : RaceReturn(c)

\* a fresh node, no search under way, no call under way
InitOfRace == InitNode /\ SearchIdle(0, "s0", NullAction, FALSE) /\ InitRace

SpecRace == InitOfRace /\ [][NextRace]_vars

(***************************************************************************)
(* C1.  After every updateQValue call (either overload) on a node that     *)
(* started fresh, meanQValue_ is totalQValue_ / nParticles_ when           *)
(* nParticles_ > 0 and exactly 0 when nParticles_ = 0, where nParticles_   *)
(* is the count after the call's adjustment.                               *)
(***************************************************************************)
C1_MeanConsistent ==
    /\ meanQValue_[2] > 0
    /\ nParticles_ > 0 => meanQValue_[1] * nParticles_ = totalQValue_ * meanQValue_[2]
    /\ nParticles_ = 0 => meanQValue_ = Zero

\* a two-argument call that lowered the count has left a non-integer mean
C1_Witness ==
    /\ lastCall.op = "updateQValue2"
    /\ lastCall.deltaNParticles < 0
    /\ nParticles_ > 1
    /\ meanQValue_[2] > 1

(***************************************************************************)
(* C2.  In a sequential series of calls, createOrGetChild creates a child  *)
(* (flag true) exactly when the observation has none, and otherwise        *)
(* returns the child the observation already has (flag false) and changes  *)
(* nothing; getChild never changes the mapping; so the node never holds    *)
(* two children for one observation.                                       *)
(***************************************************************************)
ChildrenOf(map) == {map[i].child : i \in 1..Len(map)}

AtMostOneChildPerObservation ==
    \A i, j \in 1..Len(obsMap_) :
        (obsMap_[i].obs = obsMap_[j].obs \/ obsMap_[i].child = obsMap_[j].child) => i = j

C2_Step ==
    /\ (nodeCalls' # nodeCalls /\ lastCall'.op = "createOrGetChild") =>
          LET o == lastCall'.obs
              old == GetBelief(obsMap_, o) IN
          IF old = NULL
          THEN /\ lastCall'.added = TRUE
               /\ lastCall'.child # NULL
               /\ lastCall'.child \notin ChildrenOf(obsMap_)
               /\ GetBelief(obsMap_', o) = lastCall'.child
               /\ Len(obsMap_') = Len(obsMap_) + 1
          ELSE /\ lastCall'.added = FALSE
               /\ lastCall'.child = old
               /\ obsMap_' = obsMap_
    /\ (nodeCalls' # nodeCalls /\ lastCall'.op = "getChild") =>
          /\ obsMap_' = obsMap_
          /\ lastCall'.child = GetBelief(obsMap_, lastCall'.obs)

C2_CreateOrGetChildIdempotent ==
    [](AtMostOneChildPerObservation) /\ [][C2_Step]_vars

\* a second createOrGetChild of an observation has returned the existing child
C2_Witness ==
    /\ lastCall.op = "createOrGetChild"
    /\ lastCall.added = FALSE
    /\ Len(obsMap_) = 2

(***************************************************************************)
(* C9.  nParticles_ >= 0 in every reachable state.                         *)
(***************************************************************************)
C9_NParticlesNonNegative == nParticles_ >= 0

(***************************************************************************)
(* Reading the log of one extendSequence call.                             *)
(***************************************************************************)
Returned == pc = "done"

Idx(op) == {i \in DOMAIN log : log[i].op = op}

\* the log entries with the given op, in order
RECURSIVE Pick(_, _)
Pick(l, op) ==
    IF l = <<>> THEN <<>>
    ELSE IF Head(l).op = op THEN <<Head(l)>> \o Pick(Tail(l), op)
    ELSE Pick(Tail(l), op)

Results == Pick(log, "result")
StageSteps(stage) ==
    LET all == Pick(log, "stageGetStep")
        RECURSIVE OfStage(_)
        OfStage(l) == IF l = <<>> THEN <<>>
                      ELSE IF Head(l).stage = stage THEN <<Head(l)>> \o OfStage(Tail(l))
                      ELSE OfStage(Tail(l))
    IN OfStage(all)

FrontierAtEntry == atEntry.seq[Len(atEntry.seq)]
DepthAtEntry == atEntry.depthOf[FrontierAtEntry.node]
StepsTaken == Len(seq) - Len(atEntry.seq)

TreeUntouched ==
    /\ depthOf = atEntry.depthOf
    /\ edges = atEntry.edges
    /\ Idx("createOrGetChild") = {}
    /\ Idx("updateImmediate") = {}
    /\ Idx("updateEstimate") = {}

\* the stage calls of the staged getStep that ended with log entry k (a "result")
SegmentStart(k) ==
    CHOOSE j \in 1..(k - 1) :
        /\ log[j].op = "getStep"
        /\ \A i \in (j + 1)..(k - 1) : log[i].op # "getStep"

Segment(k) == {i \in (SegmentStart(k) + 1)..(k - 1) : log[i].op = "stageGetStep"}

\* a staged getStep has just returned: its result is the last entry of the log
JustReturned == log # <<>> /\ log[Len(log)].op = "result"

(***************************************************************************)
(* C3.  (as stated) With stages [A, B], when A yields one step and then a  *)
(* null action, the first getStep returns A's step and the second returns  *)
(* B's first step; every getStep returns the result of the first stage,    *)
(* from the active one on in list order, that yields a step.               *)
(***************************************************************************)
C3_Scenario(stepsOfA, results) ==
    /\ Len(stepsOfA) >= 2
    /\ stepsOfA[1].result.action # NullAction
    /\ stepsOfA[2].result.action = NullAction
    /\ Len(results) >= 2

C3_FirstStepOfLaterStage(k, segment) ==
    /\ segment # {}
    /\ \A i \in segment :
          IF \E j \in segment : j > i
          THEN log[i].result.action = NullAction
          ELSE log[i].result = log[k].result
    \* the stages are tried in list order, one after the other
    /\ \A i, j \in segment :
          (j > i /\ ~\E m \in segment : i < m /\ m < j) => log[j].stage = log[i].stage + 1

C3_StagedGetStepAsStated ==
    JustReturned =>
        LET stepsOfA == StageSteps(1)
            stepsOfB == StageSteps(2)
            results == Results
            segment == Segment(Len(log)) IN
        /\ C3_Scenario(stepsOfA, results) =>
              /\ results[1].result = stepsOfA[1].result
              /\ Len(stepsOfB) >= 1
              /\ results[2].result = stepsOfB[1].result
        /\ C3_FirstStepOfLaterStage(Len(log), segment)

(***************************************************************************)
(* C3.  (amended) The same, as long as the shared status is not FINISHED   *)
(* when a stage yields a null action: a stage is skipped only when it      *)
(* left a status other than FINISHED, and getStep returns a null action    *)
(* when the stage that yielded it was the last one or left FINISHED.       *)
(* (Each getStep is checked as it returns.)                                *)
(***************************************************************************)
C3_StagedGetStep ==
    JustReturned =>
        LET stepsOfA == StageSteps(1)
            stepsOfB == StageSteps(2)
            results == Results
            segment == Segment(Len(log)) IN
        /\ (C3_Scenario(stepsOfA, results) /\ stepsOfA[2].status # "FINISHED") =>
              /\ results[1].result = stepsOfA[1].result
              /\ Len(stepsOfB) >= 1
              /\ results[2].result = stepsOfB[1].result
        /\ C3_FirstStepOfLaterStage(Len(log), segment)
        /\ \A i \in segment :
              (\E j \in segment : j > i) => log[i].status # "FINISHED"
        /\ log[Len(log)].result.action = NullAction =>
              \E i \in segment :
                  /\ \A j \in segment : j <= i
                  /\ log[i].status = "FINISHED" \/ log[i].stage = Len(factories_)

\* A's step was returned first and B's first step, a real one, second
C3_Witness ==
    /\ JustReturned
    /\ C3_Scenario(StageSteps(1), Results)
    /\ Results[1].generator = 1
    /\ Results[2].generator = 2
    /\ Results[2].result.action # NullAction

(***************************************************************************)
(* C4.  (as stated) A call on a sequence whose frontier state is terminal  *)
(* returns ERROR, changes nothing in the tree, makes no update call and    *)
(* appends no entry.                                                       *)
(***************************************************************************)
C4_TerminalFrontierAsStated ==
    (Returned /\ IsTerminal(FrontierAtEntry.state)) =>
        /\ ret = "ERROR"
        /\ TreeUntouched
        /\ seq = atEntry.seq

(***************************************************************************)
(* C4.  (amended) Such a call returns ERROR when the generator's           *)
(* construction left a status other than UNINITIALIZED, and UNINITIALIZED  *)
(* when it left that; either way nothing in the tree changes, no update    *)
(* call is made and no entry is appended.                                  *)
(***************************************************************************)
C4_TerminalFrontier ==
    (Returned /\ IsTerminal(FrontierAtEntry.state)) =>
        /\ ret = IF stopped = "uninitialized" THEN "UNINITIALIZED" ELSE "ERROR"
        /\ stopped = "uninitialized" <=> status = "UNINITIALIZED"
        /\ TreeUntouched
        /\ seq = atEntry.seq
        /\ Idx("getStep") = {}
        /\ Idx("heuristic") = {}

C4_Witness ==
    /\ Returned
    /\ IsTerminal(FrontierAtEntry.state)
    /\ FrontierAtEntry.action = NullAction
    /\ ret = "ERROR"
    /\ DepthAtEntry < maximumDepth

(***************************************************************************)
(* C5.  A call that stops at the depth cutoff evaluates the heuristic once *)
(* at the frontier, stores the value as the frontier entry's reward, makes *)
(* one value-only update (value, 0 visits) of the frontier belief and      *)
(* returns FINISHED; when the frontier belief is already that deep, the    *)
(* cutoff comes at once, with no getStep and no new entry; no call ever    *)
(* returns OUT_OF_STEPS.                                                   *)
(***************************************************************************)
PreconditionsPassed == stopped \notin {"no", "uninitialized", "terminal frontier", "frontier action"}

C5_DepthCutoff ==
    /\ Returned => ret # "OUT_OF_STEPS"
    /\ (Returned /\ stopped = "cutoff") =>
          /\ ret = "FINISHED"
          /\ Cardinality(Idx("heuristic")) = 1
          /\ \A i \in Idx("heuristic") :
                /\ i = Len(log) - 1
                /\ log[i].entry = Len(seq)
                /\ log[i].state = seq[Len(seq)].state
                /\ seq[Len(seq)].reward = log[i].value
                /\ log[Len(log)] = [op |-> "updateEstimate", node |-> seq[Len(seq)].node,
                                    deltaTotalQ |-> log[i].value, deltaNVisits |-> 0]
          /\ Cardinality({i \in Idx("updateEstimate") : log[i].deltaNVisits = 0}) = 1
          /\ depthOf[seq[Len(seq)].node] >= maximumDepth
    /\ (Returned /\ PreconditionsPassed /\ DepthAtEntry >= maximumDepth) =>
          /\ stopped = "cutoff"
          /\ Idx("getStep") = {}
          /\ StepsTaken = 0

\* the cutoff came at once, at a frontier belief below the root
C5_Witness ==
    /\ Returned
    /\ stopped = "cutoff"
    /\ DepthAtEntry = maximumDepth
    /\ DepthAtEntry > 0
    /\ ret = "FINISHED"

(***************************************************************************)
(* C6.  When every step the generator returns is a real, non-terminal one  *)
(* and the frontier belief's depth d is below maximumDepth, the call takes *)
(* exactly maximumDepth - d steps, each one level deeper, with exactly one *)
(* immediate update per step: of the belief the step was taken from, for   *)
(* the step's action and observation, +1 visit and the step's reward; it   *)
(* returns FINISHED and the last entry's reward is the heuristic's value.  *)
(***************************************************************************)
AllStepsGoOn ==
    \A i \in 1..Len(Results) :
        Results[i].result.action # NullAction /\ ~Results[i].result.isTerminal

C6_FullDescent ==
    (Returned /\ PreconditionsPassed /\ AllStepsGoOn /\ DepthAtEntry < maximumDepth) =>
        LET n == Len(atEntry.seq)
            steps == maximumDepth - DepthAtEntry
            updates == Pick(log, "updateImmediate")
            children == Pick(log, "createOrGetChild")
        IN
        /\ StepsTaken = steps
        /\ Len(Results) = steps
        /\ Len(updates) = steps
        /\ Len(children) = steps
        /\ \A k \in 1..steps :
              LET from == seq[n + k - 1]
                  to == seq[n + k] IN
              /\ children[k].node = from.node
              /\ children[k].child = to.node
              /\ depthOf[to.node] = depthOf[from.node] + 1
              /\ from.action = Results[k].result.action
              /\ from.observation = Results[k].result.observation
              /\ updates[k] = [op |-> "updateImmediate", node |-> from.node,
                               action |-> from.action, observation |-> from.observation,
                               reward |-> Results[k].result.reward, deltaNVisits |-> 1]
              /\ from.reward = Results[k].result.reward
        /\ ret = "FINISHED"
        /\ Cardinality(Idx("heuristic")) = 1
        /\ \A i \in Idx("heuristic") : seq[Len(seq)].reward = log[i].value

\* root at depth 0, maximumDepth 2: two levels were created
C6_Witness ==
    /\ Returned
    /\ Len(atEntry.depthOf) = 1
    /\ PreconditionsPassed
    /\ AllStepsGoOn
    /\ DepthAtEntry = 0
    /\ maximumDepth = 2
    /\ StepsTaken = 2
    /\ Len(depthOf) = 3

(***************************************************************************)
(* C7.  A step marked terminal ends the call at once: the step is          *)
(* recorded, one entry for the resulting state is appended and registered  *)
(* to the child belief, FINISHED is returned, the heuristic is not called  *)
(* and no further step is asked for, even at the depth cutoff.             *)
(***************************************************************************)
IsTerminalStep(r) == r.action # NullAction /\ r.isTerminal

C7_TerminalStep ==
    LET results == Results
        n == Len(results) IN
    /\ (Returned /\ stopped = "terminal step") =>
          LET last == results[n].result
              child == Pick(log, "createOrGetChild")[n].child IN
          /\ ret = "FINISHED"
          /\ last.isTerminal
          /\ Idx("heuristic") = {}
          /\ log[Len(log)] = [op |-> "addEntry", entry |-> Len(seq),
                              state |-> last.nextState, node |-> child]
          /\ seq[Len(seq)].state = last.nextState
          /\ seq[Len(seq)].node = child
          /\ seq[Len(seq) - 1].action = last.action
          /\ seq[Len(seq) - 1].observation = last.observation
          /\ seq[Len(seq) - 1].reward = last.reward
          /\ StepsTaken = n
          /\ Cardinality(Idx("getStep")) = n
    \* nothing is asked of the generator, and the loop is not gone round, after
    \* a terminal step
    /\ \A i \in 1..(n - 1) : ~IsTerminalStep(results[i].result)
    /\ (n > 0 /\ IsTerminalStep(results[n].result)) =>
          \/ pc = "step"
          \/ Returned /\ stopped = "terminal step"

\* the first step was terminal and led to a belief at the cutoff depth
C7_Witness ==
    /\ Returned
    /\ stopped = "terminal step"
    /\ Len(Results) = 1
    /\ StepsTaken = 1
    /\ depthOf[seq[Len(seq)].node] = maximumDepth

(***************************************************************************)
(* C8.  (as stated) When the generator returns a null action before the    *)
(* cutoff, the call returns FINISHED whatever the generator left in the    *)
(* shared status, and does not call the heuristic.                         *)
(***************************************************************************)
C8_NullActionAsStated ==
    (Returned /\ stopped = "null action") =>
        /\ ret = "FINISHED"
        /\ Idx("heuristic") = {}

(***************************************************************************)
(* C8.  (amended) When the generator returns a null action before the      *)
(* cutoff, the call takes no further step and returns without raising      *)
(* anything; what it returns is decided by the status the generator left:  *)
(* FINISHED, without the heuristic, when it left FINISHED; FINISHED, after *)
(* one heuristic evaluation, when it left OUT_OF_STEPS; and otherwise the  *)
(* status it left (UNINITIALIZED, INITIAL or ERROR), without the           *)
(* heuristic.                                                              *)
(***************************************************************************)
StatusLeft ==
    LET stages == Pick(log, "stageGetStep") IN stages[Len(stages)].status

C8_NullAction ==
    (Returned /\ stopped = "null action") =>
        /\ Results[Len(Results)].result.action = NullAction
        /\ StepsTaken = Len(Results) - 1
        /\ depthOf[seq[Len(seq)].node] < maximumDepth
        /\ IF StatusLeft = "OUT_OF_STEPS"
           THEN /\ ret = "FINISHED"
                /\ Cardinality(Idx("heuristic")) = 1
           ELSE /\ ret = StatusLeft
                /\ Idx("heuristic") = {}

\* every stage declined at once and the last one left FINISHED
C8_Witness ==
    /\ Returned
    /\ stopped = "null action"
    /\ StatusLeft = "FINISHED"
    /\ ret = "FINISHED"
    /\ Len(Pick(log, "stageGetStep")) = Len(factories_)

(***************************************************************************)
(* C10.  (as stated) A call on a sequence whose frontier entry carries an  *)
(* action (its state not terminal) returns ERROR without getStep, the      *)
(* heuristic or a tree update, and leaves the sequence as it was.          *)
(***************************************************************************)
FrontierActionCase ==
    /\ Returned
    /\ FrontierAtEntry.action # NullAction
    /\ ~IsTerminal(FrontierAtEntry.state)

C10_FrontierActionAsStated ==
    FrontierActionCase =>
        /\ ret = "ERROR"
        /\ Idx("getStep") = {}
        /\ Idx("heuristic") = {}
        /\ TreeUntouched
        /\ seq = atEntry.seq

(***************************************************************************)
(* C10.  (amended) Such a call returns ERROR when the generator's          *)
(* construction left a status other than UNINITIALIZED, and UNINITIALIZED  *)
(* when it left that; either way without getStep, the heuristic or a tree  *)
(* update, and with the sequence and the frontier's action as they were.   *)
(***************************************************************************)
C10_FrontierAction ==
    FrontierActionCase =>
        /\ ret = IF stopped = "uninitialized" THEN "UNINITIALIZED" ELSE "ERROR"
        /\ stopped = "uninitialized" <=> status = "UNINITIALIZED"
        /\ Idx("getStep") = {}
        /\ Idx("heuristic") = {}
        /\ TreeUntouched
        /\ seq = atEntry.seq
        /\ seq[Len(seq)].action = FrontierAtEntry.action

C10_Witness ==
    /\ FrontierActionCase
    /\ ret = "ERROR"
    /\ DepthAtEntry < maximumDepth

(***************************************************************************)
(* C11.  A call that takes k steps issues max(0, k - 1) continuation       *)
(* updates: none for the first step and one for each later step, made      *)
(* with updateEstimate (not updateImmediate) on the belief the step is     *)
(* about to leave, with value 0 and +1 visit, right after getStep returned *)
(* a real step and before the step is recorded and the child looked up;    *)
(* none follows a null action.                                             *)
(***************************************************************************)
\* the updateEstimate calls other than the one that follows the heuristic
Continuations ==
    {i \in Idx("updateEstimate") : i = 1 \/ log[i - 1].op # "heuristic"}

C11_Continuations ==
    (pc \in {"loop", "post", "done"}) =>
        LET k == Cardinality(Idx("record"))
            conts == Continuations IN
        /\ Cardinality(conts) = IF k = 0 THEN 0 ELSE k - 1
        /\ \A i \in conts :
              /\ i > 1 /\ i + 2 <= Len(log)
              /\ log[i - 1].op = "result"
              /\ log[i - 1].result.action # NullAction
              /\ log[i - 2].op = "stageGetStep"
              /\ log[i] = [op |-> "updateEstimate", node |-> log[i + 2].node,
                           deltaTotalQ |-> 0, deltaNVisits |-> 1]
              /\ log[i + 1].op = "record"
              /\ log[i + 2].op = "createOrGetChild"
              /\ seq[log[i + 1].entry].node = log[i].node
              \* it is not the first step of the call
              /\ \E j \in Idx("record") : j < i
        \* a step that is recorded right after getStep returned is the first one
        /\ \A j \in Idx("record") :
              log[j - 1].op = "result" => \A m \in Idx("record") : m >= j
        /\ Idx("updateImmediate") \cap Continuations = {}

\* two steps were taken and the second one left a continuation behind
C11_Witness ==
    /\ Returned
    /\ Cardinality(Idx("record")) = 2
    /\ Cardinality(Continuations) = 1
    /\ Cardinality(Idx("heuristic")) = 1

(***************************************************************************)
(* C12.  (as stated) A step is asked for only from a belief whose depth is *)
(* below maximumDepth, and so are the loop's updates and the child         *)
(* creation; every belief the call is at has depth <= maximumDepth and at  *)
(* most maximumDepth minus the frontier depth steps are taken.             *)
(***************************************************************************)
\* the calls the loop makes from a belief: getStep, the continuation, the
\* child's creation and the immediate update
LoopCalls ==
    Idx("getStep") \cup Idx("createOrGetChild") \cup Idx("updateImmediate") \cup Continuations

StepsOnlyBelowCutoff ==
    /\ \A i \in LoopCalls : depthOf[log[i].node] < maximumDepth
    /\ \A e \in edges \ atEntry.edges : depthOf[e.parent] < maximumDepth
    /\ pc \in {"getStep", "step"} => depthOf[currentNode] < maximumDepth

C12_StepsBelowCutoffAsStated ==
    pc # "idle" =>
        /\ StepsOnlyBelowCutoff
        /\ \A i \in Len(atEntry.seq)..Len(seq) : depthOf[seq[i].node] <= maximumDepth
        /\ depthOf[currentNode] <= maximumDepth
        /\ StepsTaken <= maximumDepth - DepthAtEntry

(***************************************************************************)
(* C12.  (amended) A step is asked for only from a belief whose depth is   *)
(* below maximumDepth, and so are the continuation, the immediate update   *)
(* and the child creation (the heuristic's value-only update is the one    *)
(* call made at a belief at or past the cutoff); every belief the call     *)
(* steps into has depth <= maximumDepth, and at most                       *)
(* max(0, maximumDepth - frontier depth) steps are taken: a frontier       *)
(* belief deeper than maximumDepth stays where it is.                      *)
(***************************************************************************)
C12_StepsBelowCutoff ==
    pc # "idle" =>
        /\ StepsOnlyBelowCutoff
        /\ \A i \in (Len(atEntry.seq) + 1)..Len(seq) :
              /\ depthOf[seq[i].node] <= maximumDepth
              /\ depthOf[seq[i].node] = depthOf[seq[i - 1].node] + 1
        /\ currentNode = seq[Len(seq)].node
        /\ StepsTaken <= IF maximumDepth > DepthAtEntry
                         THEN maximumDepth - DepthAtEntry ELSE 0
        /\ DepthAtEntry > maximumDepth => StepsTaken = 0

\* the last step the depth allowed was taken, from one level below the cutoff
C12_Witness ==
    /\ Returned
    /\ StepsTaken = 2
    /\ depthOf[currentNode] = maximumDepth
    /\ \E i \in Idx("getStep") : depthOf[log[i].node] = maximumDepth - 1

(***************************************************************************)
(* C13.  Every extendSequence call returns a status, whatever steps the    *)
(* generator produces: each step of the call lowers a natural-number rank  *)
(* made of the depth still allowed, the stages still unexplored and the    *)
(* position in the loop body, so the loop cannot run forever; a call that  *)
(* has not returned can always take its next step, and the rank is 0       *)
(* exactly when the call has returned, with one of the statuses.           *)
(***************************************************************************)
DepthLeft ==
    IF maximumDepth > depthOf[currentNode] THEN maximumDepth - depthOf[currentNode] ELSE 0

StagesLeft == Len(factories_) + 1 - iterator_

Phase ==
    CASE pc = "done" -> 0
      [] pc = "post" -> 1
      [] pc = "step" -> 2
      [] pc = "getStep" -> 3 + StagesLeft
      [] OTHER -> 4 + Len(factories_)

Rank == IF pc = "done" THEN 0 ELSE DepthLeft * (5 + Len(factories_)) + Phase

RankDecreases ==
    pc # "idle" => /\ Rank' < Rank
                   /\ Rank' >= 0
                   /\ pc' # "idle"

C13_Terminates ==
    /\ [][RankDecreases]_vars
    /\ [](pc \in {"loop", "getStep", "step", "post"} => ENABLED NextSearch)
    /\ [](pc # "idle" => /\ Rank \in Nat
                         /\ Rank = 0 <=> Returned
                         /\ Returned => ret \in SearchStatuses)

\* a call that went round the loop as often as the depth allowed has returned
C13_Witness ==
    /\ Returned
    /\ ret = "FINISHED"
    /\ StepsTaken = 2
    /\ stopped = "cutoff"
    /\ Cardinality(Idx("createGenerator")) = 2

(***************************************************************************)
(* C14.  The staged generator instantiates another stage only right after  *)
(* the active stage returned a null action with the shared status not      *)
(* FINISHED and a stage left in the list; the stages are instantiated in   *)
(* list order, one factory after the other and each at most once, the      *)
(* cursor stands one past the last instantiated stage and only moves       *)
(* forward, and a step is only ever asked of the stage instantiated last.  *)
(***************************************************************************)
CreatesBefore(i) == Cardinality({j \in Idx("createGenerator") : j < i})

StagesInOrder ==
    pc # "idle" =>
        LET creates == Idx("createGenerator") IN
        /\ log[1] = EvCreate(1)
        /\ iterator_ = Cardinality(creates) + 1
        /\ iterator_ <= Len(factories_) + 1
        /\ generator_ \in {NULL, iterator_ - 1}
        /\ \A i \in creates :
              /\ log[i].stage = CreatesBefore(i) + 1
              /\ log[i].stage <= Len(factories_)
              /\ i > 1 => /\ log[i - 1].op = "stageGetStep"
                          /\ log[i - 1].result.action = NullAction
                          /\ log[i - 1].status # "FINISHED"
                          /\ log[i - 1].stage = log[i].stage - 1
        /\ \A i \in Idx("stageGetStep") : log[i].stage = CreatesBefore(i)

C14_StagesInOrder ==
    /\ []StagesInOrder
    /\ [][pc # "idle" => iterator_' >= iterator_]_vars

\* the first stage declined, the second was instantiated and produced a step
C14_Witness ==
    /\ Returned
    /\ Cardinality(Idx("createGenerator")) = 2
    /\ \E i \in Idx("stageGetStep") : log[i].stage = 1 /\ log[i].result.action = NullAction
    /\ \E i \in Idx("stageGetStep") : log[i].stage = 2 /\ log[i].result.action # NullAction

(***************************************************************************)
(* C15.  When the active stage returns a null action and the shared status *)
(* is FINISHED or no stage is left, getStep clears the active generator    *)
(* and returns that null result; after a null action under FINISHED no     *)
(* stage is instantiated any more, though one may be left in the list.     *)
(***************************************************************************)
StageStops(i) ==
    /\ log[i].result.action = NullAction
    /\ log[i].status = "FINISHED" \/ log[i].stage = Len(factories_)

C15_ClearedOnStop ==
    pc # "idle" =>
        /\ \A i \in Idx("stageGetStep") :
              StageStops(i) =>
                  /\ i < Len(log)
                  /\ log[i + 1] = EvResult(log[i].result, NULL)
                  /\ generator_ = NULL
                  /\ \A j \in Idx("createGenerator") : j < i
                  /\ \A j \in Idx("stageGetStep") : j <= i
        /\ \A i \in Idx("result") :
              /\ log[i - 1].op = "stageGetStep"
              /\ log[i].result = log[i - 1].result
              /\ log[i].generator = IF StageStops(i - 1) THEN NULL ELSE log[i - 1].stage
        /\ generator_ = NULL => \E i \in Idx("stageGetStep") : StageStops(i)

\* the first stage declined under FINISHED: the generator is cleared, the
\* second stage is never instantiated
C15_Witness ==
    /\ Returned
    /\ generator_ = NULL
    /\ iterator_ = Len(factories_)
    /\ \E i \in Idx("stageGetStep") : StageStops(i) /\ log[i].status = "FINISHED"
    /\ Cardinality(Idx("record")) = 1

(***************************************************************************)
(* C16.  Each step of the loop makes its calls in this order: the step's   *)
(* reward, action, transition parameters and observation are recorded in   *)
(* the current entry; the child belief of (current belief, action,         *)
(* observation) is created or retrieved; the immediate update is applied   *)
(* to the current (parent) belief, not to the child; then the current      *)
(* belief advances to the child and a new entry, registered to the child   *)
(* and holding the step's next state, is appended.                         *)
(***************************************************************************)
StepOps == {"record", "createOrGetChild", "updateImmediate", "addEntry"}

C16_StepOrder ==
    pc # "idle" =>
        /\ \A i \in 1..Len(log) :
              log[i].op \in StepOps =>
                  \E j \in Idx("record") : j <= i /\ i <= j + 3
        /\ \A i \in Idx("record") :
              /\ i + 3 <= Len(log)
              /\ LET r == log[i].result
                     parent == seq[log[i].entry].node
                     made == log[i + 1]
                 IN
                 /\ r.action # NullAction
                 /\ seq[log[i].entry].action = r.action
                 /\ seq[log[i].entry].observation = r.observation
                 /\ seq[log[i].entry].reward = r.reward
                 /\ seq[log[i].entry].tp = r.transitionParameters
                 /\ made.op = "createOrGetChild"
                 /\ made.node = parent
                 /\ made.action = r.action /\ made.observation = r.observation
                 /\ made.child # parent
                 /\ [parent |-> parent, action |-> r.action, observation |-> r.observation,
                     child |-> made.child] \in edges
                 /\ log[i + 2] = EvUpdateImmediate(parent, r, 1)
                 /\ log[i + 3] = EvAddEntry(log[i].entry + 1, r.nextState, made.child)
                 /\ seq[log[i].entry + 1].node = made.child
                 /\ seq[log[i].entry + 1].state = r.nextState
                 /\ i + 3 = Len(log) => /\ currentNode = made.child
                                        /\ currentEntry = log[i].entry + 1
                                        /\ currentEntry = Len(seq)

\* two steps were taken, the second from the child the first one made
C16_Witness ==
    /\ Returned
    /\ Cardinality(Idx("addEntry")) = 2
    /\ \E i, j \in Idx("createOrGetChild") : i < j /\ log[j].node = log[i].child
    /\ \E i \in Idx("createOrGetChild") : ~log[i].added

(***************************************************************************)
(* C17.  When the generator's construction leaves the status               *)
(* UNINITIALIZED, extendSequence returns UNINITIALIZED at once: the one    *)
(* call it has made is the generator's construction (no terminality query, *)
(* no getStep, no heuristic), the frontier's action is not looked at, and  *)
(* the tree and the sequence are as they were; this holds for a terminal   *)
(* frontier and for a frontier that carries an action as well, the check   *)
(* coming before the two ERROR preconditions.                              *)
(***************************************************************************)
\* the call has done nothing yet but construct its generator and test its
\* preconditions: the status is still the one the construction left
AfterConstruction == pc # "idle" /\ Len(log) <= 2 /\ Idx("heuristic") = {} /\ pc # "post"

C17_Uninitialized ==
    (AfterConstruction /\ status = "UNINITIALIZED") =>
        /\ Returned
        /\ ret = "UNINITIALIZED"
        /\ log = <<EvCreate(1)>>
        /\ TreeUntouched
        /\ seq = atEntry.seq
        /\ currentNode = FrontierAtEntry.node

\* the construction failed on a terminal frontier and on one with an action
C17_Witness ==
    /\ Returned
    /\ ret = "UNINITIALIZED"
    /\ log = <<EvCreate(1)>>
    /\ IsTerminal(FrontierAtEntry.state)
    /\ FrontierAtEntry.action # NullAction

(***************************************************************************)
(* C18.  (as stated) The call keeps every entry before the frontier entry  *)
(* it was called with, appends one entry per non-null step, leaves on each *)
(* entry it moved past the action and observation of that entry's step,    *)
(* and on every return the last entry of the sequence carries no action.   *)
(***************************************************************************)
\* the results with an action that getStep has handed to the loop body
NonNullSteps == {i \in Idx("record") : log[i].result.action # NullAction}

AppendOnly ==
    /\ Len(seq) >= Len(atEntry.seq)
    /\ \A i \in 1..(Len(atEntry.seq) - 1) : seq[i] = atEntry.seq[i]
    /\ seq[Len(atEntry.seq)].state = FrontierAtEntry.state
    /\ seq[Len(atEntry.seq)].node = FrontierAtEntry.node
    /\ pc \in {"loop", "post", "done"} =>
          /\ StepsTaken = Cardinality(NonNullSteps)
          /\ StepsTaken = Cardinality({i \in Idx("result") : log[i].result.action # NullAction})
    /\ \A i \in NonNullSteps :
          /\ log[i].entry >= Len(atEntry.seq)
          /\ log[i].entry < Len(seq)
          /\ seq[log[i].entry].action = log[i].result.action
          /\ seq[log[i].entry].observation = log[i].result.observation
          /\ \A j \in NonNullSteps : j < i => log[j].entry < log[i].entry
    /\ \A e \in Len(atEntry.seq)..(Len(seq) - 1) : \E i \in NonNullSteps : log[i].entry = e

C18_AppendOnlyAsStated ==
    pc # "idle" =>
        /\ AppendOnly
        /\ Returned => seq[Len(seq)].action = NullAction

(***************************************************************************)
(* C18.  (amended) The call never removes or reorders entries and changes  *)
(* no entry but the last one, whose state and belief it keeps; it keeps    *)
(* every entry before the frontier entry it was called with, appends one   *)
(* entry per non-null step and leaves on each entry it moved past the      *)
(* action and observation of that entry's step.  A call whose frontier     *)
(* entry carried no action returns with a last entry that carries none; a  *)
(* call whose frontier entry carried an action returns ERROR or            *)
(* UNINITIALIZED with the sequence as it was, that action still on the     *)
(* last entry.                                                             *)
(***************************************************************************)
LastEntryOnReturn ==
    Returned =>
        IF FrontierAtEntry.action = NullAction
        THEN seq[Len(seq)].action = NullAction
        ELSE /\ ret \in {"ERROR", "UNINITIALIZED"}
             /\ seq = atEntry.seq
             /\ seq[Len(seq)].action # NullAction

EntriesKept ==
    pc # "idle" =>
        /\ Len(seq') \in {Len(seq), Len(seq) + 1}
        /\ \A i \in 1..(Len(seq) - 1) : seq'[i] = seq[i]
        /\ seq'[Len(seq)].state = seq[Len(seq)].state
        /\ seq'[Len(seq)].node = seq[Len(seq)].node
        /\ Len(seq') = Len(seq) + 1 <=> pc = "step" /\ result.action # NullAction

C18_AppendOnly ==
    /\ [](pc # "idle" => AppendOnly /\ LastEntryOnReturn)
    /\ [][EntriesKept]_vars

\* an entry was appended behind a frontier that had an entry before it
C18_Witness ==
    /\ Returned
    /\ Len(atEntry.seq) = 2
    /\ StepsTaken = 1
    /\ seq[1] = atEntry.seq[1]
    /\ seq[2].action # NullAction
    /\ seq[Len(seq)].action = NullAction

(***************************************************************************)
(* C19.  Within one call getStep is not invoked again once it has returned *)
(* a null action: no getStep call, stage call or stage construction comes  *)
(* after a null result, so a staged generator that has cleared its active  *)
(* generator is never asked for a step and the cleared generator is never  *)
(* dereferenced.                                                           *)
(***************************************************************************)
NullResults == {i \in Idx("result") : log[i].result.action = NullAction}

C19_NoStepAfterNull ==
    pc # "idle" =>
        /\ pc = "getStep" => generator_ # NULL
        /\ generator_ = NULL =>
              /\ pc \in {"step", "post", "done"}
              /\ result.action = NullAction
              /\ NullResults # {}
        /\ \A i \in Idx("stageGetStep") : log[i].stage # NULL
        /\ Cardinality(NullResults) <= 1
        /\ \A i \in NullResults :
              \A j \in (i + 1)..Len(log) :
                  log[j].op \notin {"getStep", "stageGetStep", "createGenerator", "result",
                                    "record", "createOrGetChild", "updateImmediate", "addEntry"}

\* a step, then a null action from the last stage: the generator is cleared
\* and the call returns
C19_Witness ==
    /\ Returned
    /\ stopped = "null action"
    /\ generator_ = NULL
    /\ Cardinality(Idx("getStep")) = 2
    /\ Cardinality(Idx("record")) = 1
    /\ iterator_ = Len(factories_) + 1

(***************************************************************************)
(* C20.  createOrGetChild is a lookup followed by a creation, not one      *)
(* atomic step: a call returns the created flag true exactly when its own  *)
(* lookup found no child, and then it has created one, whatever the other  *)
(* callers did since the lookup.  So the node has one child per call that  *)
(* saw none: as long as no call began while another was under way there is *)
(* at most one child per observation, and two children of one observation  *)
(* come only from calls that overlapped.                                   *)
(***************************************************************************)
RaceCreations(obs) == {i \in 1..Len(raceLog) : raceLog[i].obs = obs /\ raceLog[i].added}

C20_CheckThenCreate ==
    /\ \A i \in 1..Len(raceLog) :
          /\ raceLog[i].added <=> raceLog[i].saw = NULL
          /\ raceLog[i].child # NULL
          /\ \E k \in 1..Len(obsMap_) :
                obsMap_[k] = [obs |-> raceLog[i].obs, child |-> raceLog[i].child]
          /\ ~raceLog[i].added => raceLog[i].child = raceLog[i].saw
          /\ raceLog[i].added =>
                \A j \in 1..Len(raceLog) :
                    (j # i /\ raceLog[j].added) => raceLog[j].child # raceLog[i].child
    /\ \A obs \in Observations :
          /\ Cardinality({k \in 1..Len(obsMap_) : obsMap_[k].obs = obs})
                = Cardinality(RaceCreations(obs))
          /\ Cardinality(RaceCreations(obs)) > 1 => overlapped
    /\ ~overlapped => AtMostOneChildPerObservation

\* both callers looked up the same observation before either created its
\* child: both returned the flag true, and the observation has two children
C20_Witness ==
    /\ \E i, j \in 1..Len(raceLog) :
          /\ raceLog[i].caller # raceLog[j].caller
          /\ raceLog[i].obs = raceLog[j].obs
          /\ raceLog[i].added /\ raceLog[j].added
          /\ raceLog[i].child # raceLog[j].child
    /\ ~AtMostOneChildPerObservation
    /\ UnderWay = {}

====
